---- MODULE Spec2Model ----
(***************************************************************************)
(* A model of eml-extractor.py: the attachment extractor that walks a      *)
(* list of .eml files on a thread pool, allocates an output name for each  *)
(* attachment with make_unique_filename and writes it into one flat target *)
(* directory, counting in the shared dictionary stats.                     *)
(*                                                                         *)
(* A file name is a sequence of one-character strings, file content a      *)
(* sequence of bytes.  The target directory is a function from the names   *)
(* that exist to their content.  Every task (one per .eml file) has a      *)
(* program counter; a step of the model is one access to shared state (the *)
(* directory, stats, the progress task) with the local computation that    *)
(* follows it.                                                             *)
(***************************************************************************)
EXTENDS Integers, Sequences, FiniteSets, TLC

\* ------------------------------------------------------------------ bounds
\* Number of .eml files found under the start directory.
NumFiles == 3
\* Total number of MIME parts over all the files.
MaxTotalParts == 3
\* Worker threads of the pool (ThreadPoolExecutor's max_workers).
PoolSize == 2

\* ------------------------------------------------------------ byte strings
X == <<1>>
Y == <<2>>
\* Python's None (the payload of a multipart part, or an absent file name for
\* a payload); never a value of bytes.
None == <<-1>>
\* A file that open(.., 'wb') has created or truncated and nobody wrote yet.
Empty == <<>>

NameA == <<"a", ".", "p">>
NameA1 == <<"a", "_", "1", ".", "p">>

\* ------------------------------------------------------------ pure helpers
DigitChars == <<"0", "1", "2", "3", "4", "5", "6", "7", "8", "9">>

\* The f-string conversion {counter}: the decimal digits of a natural.
RECURSIVE Str(_)
Str(n) == IF n < 10 THEN <<DigitChars[n + 1]>>
          ELSE Str(n \div 10) \o <<DigitChars[(n % 10) + 1]>>

\* p.rfind("."): the last index of a dot, 0 when there is none.
RECURSIVE RFindDot(_, _)
RFindDot(p, i) == IF i = 0 THEN 0
                  ELSE IF p[i] = "." THEN i
                  ELSE RFindDot(p, i - 1)

\* os.path.splitext: split at the last dot, unless only dots precede it.
splitext(p) ==
    LET dot == RFindDot(p, Len(p))
    IN  IF dot > 0 /\ \E k \in 1..(dot - 1) : p[k] # "."
        THEN <<SubSeq(p, 1, dot - 1), SubSeq(p, dot, Len(p))>>
        ELSE <<p, <<>>>>

\* The f-string with the counter left out of the name: every turn of the loop
\* tries <base>_1<ext>.
MutNumberedName(filename, counter) ==
    LET be == splitext(filename)
    IN  be[1] \o <<"_">> \o Str(1) \o be[2]

\* f"{base}_{counter}{extension}"
NumberedName(filename, counter) ==
    LET be == splitext(filename)
    IN  be[1] \o <<"_">> \o Str(counter) \o be[2]

\* hashlib.md5(..).hexdigest(): a fingerprint of the bytes.  MD5 is taken to be
\* collision free, so two digests are equal exactly when the bytes are.
Md5Hex(bytes) == <<"md5", bytes>>

file_md5(file_data) == Md5Hex(file_data)

\* f.read(4096) at offset pos.
ChunkSize == 4096
ReadChunk(content, pos) ==
    SubSeq(content, pos + 1, IF pos + ChunkSize < Len(content)
                             THEN pos + ChunkSize ELSE Len(content))

\* The loop of existing_file_md5: update the hash chunk by chunk until a read
\* returns b"".
RECURSIVE HashChunks(_, _, _)
HashChunks(content, pos, acc) ==
    LET chunk == ReadChunk(content, pos)
    IN  IF chunk = <<>> THEN acc
        ELSE HashChunks(content, pos + Len(chunk), acc \o chunk)

existing_file_md5(d, path) == Md5Hex(HashChunks(d[path], 0, <<>>))

\* os.path.exists(os.path.join(target_dir, name))
Exists(d, name) == name \in DOMAIN d

\* What open(path, 'wb') followed by write(data) leaves in the directory.
PutFile(d, name, data) ==
    [n \in DOMAIN d \cup {name} |-> IF n = name THEN data ELSE d[n]]

\* ----------------------------------------------------------------- inputs
\* The MIME parts msg.walk() can yield: what get_content_disposition(),
\* get_filename() and get_payload(decode=True) read of a part.
Part(disp, filename, multipart, body) ==
    [disp |-> disp, filename |-> filename, multipart |-> multipart, body |-> body]

PartKinds ==
    { Part("inline", NameA, FALSE, X),
      Part("attachment", <<>>, FALSE, X),
      Part("attachment", NameA, FALSE, X),
      Part("attachment", NameA, FALSE, Y),
      Part("attachment", NameA1, FALSE, X),
      Part("attachment", NameA, TRUE, <<>>) }

PartSeqs(b) == UNION { [1..n -> PartKinds] : n \in 0..b }

\* The lists of k parsed files holding at most b parts together.
RECURSIVE FileLists(_, _)
FileLists(k, b) ==
    IF k = 0 THEN { <<>> }
    ELSE UNION { { <<f>> \o rest : rest \in FileLists(k - 1, b - Len(f)) } :
                 f \in PartSeqs(b) }

\* ------------------------------------------------------------------ state
VARIABLES
    files,      \* eml_files with what the parser finds in each: a list of parts
    dir,        \* target_dir: name -> content of the files that exist
    stats,      \* the shared dictionary {'processed', 'extracted'}
    pc,         \* per task (one per file): where it is in extract_attachments_from_file
    pos,        \* per task: index of the part the walk is at
    counter,    \* per task: make_unique_filename's counter
    save,       \* per task: unique_filename / save_path
    reg,        \* per task: the value read from stats by the += in progress
    exc,        \* per task: the exception its future holds ("None": none)
    progress,   \* the progress task: completed (advance) and the extracted field
    mainpc,     \* the caller: "collect" in the as_completed loop, then "returned"
    collected,  \* futures as_completed has yielded so far
    result,     \* the pair extract_and_save_attachments returns
    reported,   \* the tasks whose exception has been reported (logged, or raised to the caller)
    run,        \* 1: the run into the initial directory, 2: a second run of the program
    pre,        \* history, per task: directory and extracted when the current allocation began
    dir0,       \* history: the directory at the start of this run
    nwrites     \* history: writes of an output file completed in this run

vars == <<files, dir, stats, pc, pos, counter, save, reg, exc, progress,
          mainpc, collected, result, reported, run, pre, dir0, nwrites>>

Tasks == 1..NumFiles

EmptyDir == [n \in {} |-> Empty]

NoPre == <<>>

\* The state extract_and_save_attachments sets up before any task runs: the
\* target directory made, the files listed, stats zeroed, the progress task
\* added, every file submitted.
Fresh(d) ==
    /\ dir = d
    /\ dir0 = d
    /\ stats = [processed |-> 0, extracted |-> 0]
    /\ pc = [f \in Tasks |-> "pending"]
    /\ pos = [f \in Tasks |-> 1]
    /\ counter = [f \in Tasks |-> 0]
    /\ save = [f \in Tasks |-> <<>>]
    /\ reg = [f \in Tasks |-> 0]
    /\ exc = [f \in Tasks |-> "None"]
    /\ progress = [completed |-> 0, extracted |-> 0]
    /\ mainpc = "collect"
    /\ collected = 0
    /\ result = <<0, 0>>
    /\ reported = {}
    /\ pre = [f \in Tasks |-> NoPre]
    /\ nwrites = 0

Init ==
    /\ files \in FileLists(NumFiles, MaxTotalParts)
    /\ run = 1
    /\ Fresh(EmptyDir)

\* ------------------------------------------------------------ task helpers
Running == { f \in Tasks : pc[f] \notin {"pending", "done"} }
Finished == { f \in Tasks : pc[f] = "done" }

\* The parts walked from the last one to the first.
MutCurPart(f) == files[f][Len(files[f]) - pos[f] + 1]

CurPart(f) == files[f][pos[f]]

\* part.get_payload(decode=True): None for a multipart part.
FileData(f) == IF CurPart(f).multipart THEN None ELSE CurPart(f).body

\* The test of line 52 alone, with the `if filename:` of line 54 left out.
MutIsNamedAttachment(part) == part.disp = "attachment"

\* The part is one the loop body acts on: an attachment with a file name.
IsNamedAttachment(part) == part.disp = "attachment" /\ part.filename # <<>>

\* Where the walk continues after the part at pos[f]: the next part, or the
\* statements after the with block.
AfterPart(f) == IF pos[f] < Len(files[f]) THEN "part" ELSE "inc_processed"

\* The task leaves its current part behind.
Advance(f) ==
    /\ pos' = [pos EXCEPT ![f] = @ + 1]
    /\ pc' = [pc EXCEPT ![f] = AfterPart(f)]
    /\ counter' = [counter EXCEPT ![f] = 0]
    /\ save' = [save EXCEPT ![f] = <<>>]
    /\ pre' = [pre EXCEPT ![f] = NoPre]

\* An exception leaves extract_attachments_from_file: the future is finished
\* holding it, and nothing after the raise runs.
Raise(f, e) ==
    /\ pc' = [pc EXCEPT ![f] = "done"]
    /\ exc' = [exc EXCEPT ![f] = e]
    /\ counter' = [counter EXCEPT ![f] = 0]
    /\ save' = [save EXCEPT ![f] = <<>>]
    /\ reg' = [reg EXCEPT ![f] = 0]
    /\ pre' = [pre EXCEPT ![f] = NoPre]

\* ---------------------------------------------------------------- actions
\* A pool thread takes the next submitted file while fewer than `limit` tasks
\* run, opens it and parses it (lines 49-50).  Opening may raise OSError and
\* parsing may raise.
StartWhen(f, limit) ==
    /\ mainpc = "collect"
    /\ pc[f] = "pending"
    /\ \A g \in Tasks : g < f => pc[g] # "pending"
    /\ Cardinality(Running) < limit
    /\ \/ /\ pc' = [pc EXCEPT ![f] = IF Len(files[f]) = 0 THEN "inc_processed" ELSE "part"]
          /\ UNCHANGED <<exc, counter, save, reg, pre>>
       \/ Raise(f, "OSError(eml)")
       \/ Raise(f, "ParseError")
    /\ UNCHANGED <<files, reported, dir, stats, pos, progress, mainpc, collected, result,
                   run, dir0, nwrites>>

\* A pool that lets one task more than its bound run.
MutStart(f) == StartWhen(f, PoolSize + 1)

Start(f) == StartWhen(f, PoolSize)

\* Lines 52-54: a part that is no attachment, or has no file name, is passed over.
Ignore(f) ==
    /\ pc[f] = "part"
    /\ ~IsNamedAttachment(CurPart(f))
    /\ Advance(f)
    /\ UNCHANGED <<files, reported, dir, stats, reg, exc, progress, mainpc, collected,
                   result, run, dir0, nwrites>>

\* Lines 53-57 and 31-37, 44-46: the payload is decoded and make_unique_filename
\* looks at the desired name.  No file is ever removed from the directory, so
\* os.path.exists and the digest of the same path are taken in one step, at
\* the moment the file is read.
Allocate(f) ==
    /\ pc[f] = "part"
    /\ IsNamedAttachment(CurPart(f))
    /\ LET filename == CurPart(f).filename
           file_data == FileData(f)
       IN  IF ~Exists(dir, filename)
           THEN /\ save' = [save EXCEPT ![f] = filename]
                /\ pc' = [pc EXCEPT ![f] = "open"]
                /\ pre' = [pre EXCEPT ![f] = <<dir, stats.extracted>>]
                /\ UNCHANGED <<pos, counter, exc, reg>>
           ELSE IF file_data = None
           THEN /\ Raise(f, "TypeError")
                /\ UNCHANGED pos
           ELSE IF existing_file_md5(dir, filename) = file_md5(file_data)
           THEN /\ Advance(f)
                /\ UNCHANGED <<exc, reg>>
           ELSE /\ counter' = [counter EXCEPT ![f] = 1]
                /\ pc' = [pc EXCEPT ![f] = "scan"]
                /\ pre' = [pre EXCEPT ![f] = <<dir, stats.extracted>>]
                /\ UNCHANGED <<pos, save, exc, reg>>
    /\ UNCHANGED <<files, reported, dir, stats, progress, mainpc, collected, result, run,
                   dir0, nwrites>>

\* The test of line 41 with the comparison of the digests inverted.
MutScanStops(d, unique_filename, file_data) ==
    \/ ~Exists(d, unique_filename)
    \/ existing_file_md5(d, unique_filename) # file_md5(file_data)

\* The test that ends the while loop at line 41.
ScanStops(d, unique_filename, file_data) ==
    \/ ~Exists(d, unique_filename)
    \/ existing_file_md5(d, unique_filename) = file_md5(file_data)

\* Lines 38-43: one turn of the while loop.
Scan(f) ==
    /\ pc[f] = "scan"
    /\ LET unique_filename == NumberedName(CurPart(f).filename, counter[f])
       IN  IF ScanStops(dir, unique_filename, FileData(f))
           THEN /\ save' = [save EXCEPT ![f] = unique_filename]
                /\ pc' = [pc EXCEPT ![f] = "open"]
                /\ UNCHANGED counter
           ELSE /\ counter' = [counter EXCEPT ![f] = @ + 1]
                /\ UNCHANGED <<save, pc>>
    /\ UNCHANGED <<files, reported, dir, stats, pos, reg, exc, progress, mainpc, collected,
                   result, run, pre, dir0, nwrites>>

\* Line 59: open(save_path, 'wb') creates the file, or truncates the one that
\* is there; it raises OSError when the directory refuses.
Open(f) ==
    /\ pc[f] = "open"
    /\ \/ /\ dir' = PutFile(dir, save[f], Empty)
          /\ pc' = [pc EXCEPT ![f] = "write"]
          /\ UNCHANGED <<exc, counter, save, reg, pre>>
       \/ /\ Raise(f, "OSError(out)")
          /\ UNCHANGED dir
    /\ UNCHANGED <<files, reported, stats, pos, progress, mainpc, collected, result, run,
                   dir0, nwrites>>

\* Line 60 and the end of the with: the bytes reach the file.  write(None)
\* raises TypeError; a full disk raises OSError; both leave the file as open
\* made it.
Write(f) ==
    /\ pc[f] = "write"
    /\ \/ /\ FileData(f) # None
          /\ dir' = PutFile(dir, save[f], FileData(f))
          /\ nwrites' = nwrites + 1
          /\ pc' = [pc EXCEPT ![f] = "inc_extracted"]
          /\ UNCHANGED <<exc, counter, save, reg, pre>>
       \/ /\ FileData(f) = None
          /\ Raise(f, "TypeError")
          /\ UNCHANGED <<dir, nwrites>>
       \/ /\ FileData(f) # None
          /\ Raise(f, "OSError(out)")
          /\ UNCHANGED <<dir, nwrites>>
    /\ UNCHANGED <<files, reported, stats, pos, progress, mainpc, collected, result, run,
                   dir0>>

\* The read of line 61 with the increment applied twice: once here and once
\* at the store.
MutLoadExtracted(f) ==
    /\ pc[f] = "inc_extracted"
    /\ reg' = [reg EXCEPT ![f] = stats.extracted + 1]
    /\ pc' = [pc EXCEPT ![f] = "store_extracted"]
    /\ UNCHANGED <<files, reported, dir, stats, pos, counter, save, exc, progress, mainpc,
                   collected, result, run, pre, dir0, nwrites>>

\* Line 61, first half: stats['extracted'] is read.
LoadExtracted(f) ==
    /\ pc[f] = "inc_extracted"
    /\ reg' = [reg EXCEPT ![f] = stats.extracted]
    /\ pc' = [pc EXCEPT ![f] = "store_extracted"]
    /\ UNCHANGED <<files, reported, dir, stats, pos, counter, save, exc, progress, mainpc,
                   collected, result, run, pre, dir0, nwrites>>

\* Line 61, second half: the value read, plus one, is stored.
StoreExtracted(f) ==
    /\ pc[f] = "store_extracted"
    /\ stats' = [stats EXCEPT !.extracted = reg[f] + 1]
    /\ reg' = [reg EXCEPT ![f] = 0]
    /\ Advance(f)
    /\ UNCHANGED <<files, reported, dir, exc, progress, mainpc, collected, result, run,
                   dir0, nwrites>>

\* Line 65, first half: stats['processed'] is read.
LoadProcessed(f) ==
    /\ pc[f] = "inc_processed"
    /\ reg' = [reg EXCEPT ![f] = stats.processed]
    /\ pc' = [pc EXCEPT ![f] = "store_processed"]
    /\ UNCHANGED <<files, reported, dir, stats, pos, counter, save, exc, progress, mainpc,
                   collected, result, run, pre, dir0, nwrites>>

\* Line 65, second half, and line 66: the sum is stored, the progress task is
\* advanced under its lock, and the function returns.
StoreProcessed(f) ==
    /\ pc[f] = "store_processed"
    /\ stats' = [stats EXCEPT !.processed = reg[f] + 1]
    /\ reg' = [reg EXCEPT ![f] = 0]
    /\ progress' = [progress EXCEPT !.completed = @ + 1]
    /\ pc' = [pc EXCEPT ![f] = "done"]
    /\ UNCHANGED <<files, reported, dir, pos, counter, save, exc, mainpc, collected,
                   result, run, pre, dir0, nwrites>>

\* Lines 88-89: as_completed yields one more finished future and the caller
\* copies stats['extracted'] into the progress task.  The loop body does not
\* call future.result() or future.exception(): an exception the future holds
\* stays there, and `reported` is left as it is.
Collect ==
    /\ mainpc = "collect"
    /\ collected < Cardinality(Finished)
    /\ collected' = collected + 1
    /\ progress' = [progress EXCEPT !.extracted = stats.extracted]
    /\ UNCHANGED <<files, reported, dir, stats, pc, pos, counter, save, reg, exc, mainpc,
                   result, run, pre, dir0, nwrites>>

\* The return moved into the as_completed loop: the caller returns after the
\* first future it sees, without waiting for the others.
MutReturn ==
    /\ mainpc = "collect"
    /\ collected >= 1
    /\ mainpc' = "returned"
    /\ result' = <<stats.processed, stats.extracted>>
    /\ UNCHANGED <<files, reported, dir, stats, pc, pos, counter, save, reg, exc,
                   progress, collected, run, pre, dir0, nwrites>>

\* Lines 86-91: the loop has seen every future, the executor is shut down and
\* the counters are returned.
Return ==
    /\ mainpc = "collect"
    /\ collected = NumFiles
    /\ mainpc' = "returned"
    /\ result' = <<stats.processed, stats.extracted>>
    /\ UNCHANGED <<files, reported, dir, stats, pc, pos, counter, save, reg, exc, progress,
                   collected, run, pre, dir0, nwrites>>

TaskStep(f) ==
    \/ Ignore(f) \/ Allocate(f) \/ Scan(f) \/ Open(f) \/ Write(f)
    \/ LoadExtracted(f) \/ StoreExtracted(f)
    \/ LoadProcessed(f) \/ StoreProcessed(f)

Next ==
    \/ \E f \in Tasks : Start(f) \/ TaskStep(f)
    \/ Collect
    \/ Return

Spec == Init /\ [][Next]_vars

\* ------------------------------------------------- sequential executions
\* The schedule in which a task starts only when no other task is running:
\* the executions of the program a single worker produces.
StartSeq(f) == StartWhen(f, 1)

\* The program is run once more over the same start directory, into the
\* target directory the first run left (lines 69-73, 85-87 again).  The
\* second run modelled is the one that follows a first run in which no task
\* raised.
SecondRun ==
    /\ mainpc = "returned"
    /\ run = 1
    /\ \A f \in Tasks : exc[f] = "None"
    /\ run' = 2
    /\ dir0' = dir
    /\ stats' = [processed |-> 0, extracted |-> 0]
    /\ pc' = [f \in Tasks |-> "pending"]
    /\ pos' = [f \in Tasks |-> 1]
    /\ exc' = [f \in Tasks |-> "None"]
    /\ progress' = [completed |-> 0, extracted |-> 0]
    /\ mainpc' = "collect"
    /\ collected' = 0
    /\ result' = <<0, 0>>
    /\ nwrites' = 0
    /\ UNCHANGED <<files, reported, dir, counter, save, reg, pre>>

NextSeq ==
    \/ \E f \in Tasks : StartSeq(f) \/ TaskStep(f)
    \/ Collect
    \/ Return
    \/ SecondRun

SpecSeq == Init /\ [][NextSeq]_vars

\* ------------------------------------------------------ fair executions
\* The inputs of the executions checked for liveness: the parts without a
\* file name, the attachments named a.p and the multipart attachment.
FairKinds ==
    { Part("attachment", <<>>, FALSE, X),
      Part("attachment", NameA, FALSE, X),
      Part("attachment", NameA, FALSE, Y),
      Part("attachment", NameA, TRUE, <<>>) }

InitFair ==
    /\ Init
    /\ \A f \in Tasks : \A k \in 1..Len(files[f]) : files[f][k] \in FairKinds

\* The operating system keeps running every thread that can take a step: the
\* pool thread of each task, and the caller in its as_completed loop.
Fairness ==
    /\ \A f \in Tasks : WF_vars(Start(f) \/ TaskStep(f))
    /\ WF_vars(Collect)
    /\ WF_vars(Return)

SpecFair == InitFair /\ [][Next]_vars /\ Fairness

\* ------------------------------------------------------------- properties
AllDone == \A f \in Tasks : pc[f] = "done"
NoException == \A f \in Tasks : exc[f] = "None"

\* The files that carry exactly one part, a decodable attachment named a.p.
Group == { f \in Tasks : /\ Len(files[f]) = 1
                         /\ IsNamedAttachment(files[f][1])
                         /\ files[f][1].filename = NameA
                         /\ ~files[f][1].multipart }
GroupBodies == { files[f][1].body : f \in Group }

\* M files carry one attachment each, all named a.p, with mutually distinct
\* content, and no other file carries an attachment.
DistinctGroup ==
    /\ Cardinality(Group) >= 2
    /\ Cardinality(GroupBodies) = Cardinality(Group)
    /\ \A f \in Tasks \ Group :
          \A k \in 1..Len(files[f]) : ~IsNamedAttachment(files[f][k])

\* The names a.p, a_1.p .. a_(m-1).p.
FamilyUpTo(m) == {NameA} \cup { NumberedName(NameA, n) : n \in 1..(m - 1) }

\* C1: concurrency safety.  When M files each carry one attachment with the
\* same desired name and mutually distinct content and the run goes into an
\* empty directory without a failure, then once every task has finished the
\* directory holds exactly the M names a.p, a_1.p .. a_(M-1).p, one per
\* content, and the run returns processed = number of files, extracted = M.
C1_ConcurrencySafety ==
    (run = 1 /\ DistinctGroup /\ NoException) =>
        /\ AllDone =>
              /\ DOMAIN dir = FamilyUpTo(Cardinality(Group))
              /\ { dir[n] : n \in DOMAIN dir } = GroupBodies
        /\ mainpc = "returned" => result = <<NumFiles, Cardinality(Group)>>

\* C2: atomic counters.  When no file fails, the pair returned is the number
\* of input files and the number of attachment writes the tasks performed.
C2_AtomicCounters ==
    (mainpc = "returned" /\ NoException) => result = <<NumFiles, nwrites>>

\* The task is inside the loop body for a decodable attachment with a name.
AttachmentPcs == {"part", "scan", "open", "write", "inc_extracted", "store_extracted"}
InAttachment(f) ==
    /\ pc[f] \in AttachmentPcs
    /\ IsNamedAttachment(CurPart(f))
    /\ FileData(f) # None

\* The directory the allocation of the current attachment saw, or will see.
Observed(f) == IF pre[f] = NoPre THEN dir ELSE pre[f][1]

\* In d, the numbered variants of filename below n all exist and differ from data.
OccupiedBelow(d, filename, data, n) ==
    \A m \in 1..(n - 1) :
        /\ NumberedName(filename, m) \in DOMAIN d
        /\ d[NumberedName(filename, m)] # data

\* The content is already present: under the desired name, or, that name
\* holding other content, under the first numbered variant that does not hold
\* other content.
DupCase(d, filename, data) ==
    /\ filename \in DOMAIN d
    /\ \/ d[filename] = data
       \/ /\ d[filename] # data
          /\ \E n \in 1..Cardinality(DOMAIN d) :
                /\ NumberedName(filename, n) \in DOMAIN d
                /\ d[NumberedName(filename, n)] = data
                /\ OccupiedBelow(d, filename, data, n)

\* C3: duplicate detection.  In a sequential execution in which nothing has
\* failed, while an attachment whose content is already present (DupCase) is
\* being processed, no step changes the directory or stats['extracted'].
C3_DuplicateSkipped ==
    [][\A f \in Tasks :
          (/\ NoException
           /\ InAttachment(f)
           /\ DupCase(Observed(f), CurPart(f).filename, FileData(f)))
              => (dir' = dir /\ stats'.extracted = stats.extracted)]_vars

\* The least n >= 1 whose numbered variant of filename is not in d.
LeastFree(d, filename) ==
    CHOOSE n \in 1..(Cardinality(DOMAIN d) + 1) :
        /\ NumberedName(filename, n) \notin DOMAIN d
        /\ \A m \in 1..(n - 1) : NumberedName(filename, m) \in DOMAIN d

\* The desired name exists with other content and no variant below the first
\* free slot holds the new content.
CollisionCase(d, filename, data) ==
    /\ filename \in DOMAIN d
    /\ d[filename] # data
    /\ OccupiedBelow(d, filename, data, LeastFree(d, filename))

\* C4: collision correctness.  In a sequential execution, when an attachment
\* in the collision case has been written, the directory is the one its
\* allocation saw plus exactly one file, the variant with the least free
\* number, holding the new content; and at no point of its processing has a
\* file that existed before changed.
C4_CollisionLeastFree ==
    \A f \in Tasks :
        (/\ pc[f] \in {"scan", "open", "write", "inc_extracted", "store_extracted"}
         /\ FileData(f) # None
         /\ CollisionCase(pre[f][1], CurPart(f).filename, FileData(f)))
        => LET d == pre[f][1]
               name == NumberedName(CurPart(f).filename, LeastFree(d, CurPart(f).filename))
           IN  /\ \A n \in DOMAIN d : n \in DOMAIN dir /\ dir[n] = d[n]
               /\ pc[f] \in {"open", "write"} => save[f] = name
               /\ pc[f] \in {"inc_extracted", "store_extracted"} =>
                     /\ DOMAIN dir = DOMAIN d \cup {name}
                     /\ dir[name] = FileData(f)

\* A collision was resolved past the first variant: a_2.p was written.
C4_Witness ==
    \E f \in Tasks :
        /\ pc[f] = "inc_extracted"
        /\ CollisionCase(pre[f][1], CurPart(f).filename, FileData(f))
        /\ LeastFree(pre[f][1], CurPart(f).filename) = 2
        /\ dir[NumberedName(CurPart(f).filename, 2)] = FileData(f)

\* C5: idempotence.  A second run over the same inputs, into the directory a
\* first run (from an empty directory, without failures) left, never changes
\* the directory, completes no write and counts nothing as extracted.
C5_Idempotent ==
    (run = 2 /\ NoException) =>
        /\ dir = dir0
        /\ nwrites = 0
        /\ stats.extracted = 0
        /\ mainpc = "returned" => result[2] = 0

\* Two names of one base-name family: one is a numbered variant of the other,
\* or both are numbered variants of the same name.
SameFamily(n1, n2) ==
    LET K == 1..(Cardinality(DOMAIN dir) + 1)
    IN  \/ \E k \in K : n2 = NumberedName(n1, k) \/ n1 = NumberedName(n2, k)
        \/ \E r \in DOMAIN dir \cup {NameA, NameA1} :
              \E k1, k2 \in K : n1 = NumberedName(r, k1) /\ n2 = NumberedName(r, k2)

\* C6: uniqueness.  In a sequential execution from an empty directory in
\* which nothing failed, no two files of one base-name family have the same
\* content.
C6_FamilyDistinct ==
    NoException =>
        \A n1, n2 \in DOMAIN dir :
            (n1 # n2 /\ SameFamily(n1, n2)) => dir[n1] # dir[n2]

\* The task has looked at the directory for its desired name and has not yet
\* finished writing the file it chose.
Allocating(f) == pc[f] \in {"scan", "open", "write"}

\* C7: the allocation is a critical section per base name.  Two tasks are
\* never both between their look at the directory and the end of their write
\* for the same (base, extension), and never hold the same chosen name.
C7_CriticalSection ==
    \A f, g \in Tasks :
        (f # g /\ Allocating(f) /\ Allocating(g)) =>
            /\ splitext(CurPart(f).filename) # splitext(CurPart(g).filename)
            /\ (pc[f] # "scan" /\ pc[g] # "scan") => save[f] # save[g]

\* The exceptions of a file that could not be opened or parsed, and of an
\* attachment that could not be decoded or written.
FileFailures == {"OSError(eml)", "ParseError"}
AttachmentFailures == {"TypeError", "OSError(out)"}

Failed(kinds) == { f \in Tasks : exc[f] \in kinds }

\* C8: failure isolation.  When the run has returned and the only failures
\* were files that could not be opened or parsed, each such file handled no
\* part, every other file went through all its parts, and the totals
\* returned are the number of the other files and the writes they performed.
C8_FailureIsolation ==
    (/\ mainpc = "returned"
     /\ Failed(FileFailures) # {}
     /\ Failed(AttachmentFailures) = {}) =>
        /\ \A f \in Failed(FileFailures) : pos[f] = 1
        /\ \A f \in Tasks \ Failed(FileFailures) :
              pc[f] = "done" /\ pos[f] = Len(files[f]) + 1
        /\ result = <<NumFiles - Cardinality(Failed(FileFailures)), nwrites>>

\* C9: a parsing failure is counted as processed.  When the run has returned
\* and the only failures were parsing failures, the failed files handled no
\* part, and progress was advanced once per input file and processed equals
\* the number of input files.
C9_ParseFailureProcessed ==
    (/\ mainpc = "returned"
     /\ Failed({"ParseError"}) # {}
     /\ \A f \in Tasks : exc[f] \in {"None", "ParseError"}) =>
        /\ \A f \in Failed({"ParseError"}) : pos[f] = 1
        /\ progress.completed = NumFiles
        /\ result[1] = NumFiles

\* C10: attachment-scoped failure.  When the run has returned and the only
\* failures were attachments that could not be decoded or written, every
\* file went through all its parts and was marked processed (progress was
\* advanced once per file).
C10_AttachmentFailureScoped ==
    (/\ mainpc = "returned"
     /\ Failed(AttachmentFailures) # {}
     /\ Failed(FileFailures) = {}) =>
        /\ \A f \in Tasks : pos[f] = Len(files[f]) + 1
        /\ progress.completed = NumFiles

\* C11: every failure is reported exactly once.  Only a task that failed is
\* ever reported, and when the run has returned, the tasks whose exception
\* was reported are exactly the tasks that failed.
C11_FailuresReportedOnce ==
    /\ mainpc = "returned" => reported = { f \in Tasks : exc[f] # "None" }
    /\ reported \subseteq { f \in Tasks : exc[f] # "None" }

\* C12: run completion.  The run eventually returns; when it has returned
\* every task has finished and the pair returned is the pair of counters;
\* and after the return no step changes the counters or the directory.
C12_RunCompletion ==
    /\ <>(mainpc = "returned")
    /\ [](mainpc = "returned" =>
            AllDone /\ result = <<stats.processed, stats.extracted>>)
    /\ [][mainpc = "returned" => (dir' = dir /\ stats' = stats /\ pc' = pc)]_vars

\* The run has returned after writing two files, with a task that failed.
C12_Witness ==
    /\ mainpc = "returned"
    /\ result[2] = 2
    /\ \E f \in Tasks : exc[f] # "None"

\* A part that is no attachment: its disposition is not "attachment", or it
\* has no file name.
NonAttachment(part) == part.disp # "attachment" \/ part.filename = <<>>

\* A message file with no attachment parts.
NoAttachments(f) == \A k \in 1..Len(files[f]) : NonAttachment(files[f][k])

\* Task f takes a step of its own.
Steps(f) == run' = run /\ (pc'[f] # pc[f] \/ pos'[f] # pos[f])

\* C13: non-attachment parts are ignored.  The step of a task at a part that
\* is no attachment allocates no name, writes nothing, changes no counter,
\* raises nothing and goes on to the next part.  No step of a task whose file
\* has no attachment parts changes the directory or the extracted counter,
\* and when such a task finishes without an exception it has added exactly
\* one to processed.  A run over files with no attachment parts returns
\* (NumFiles, 0) and leaves the directory as it was.
C13_NonAttachmentIgnored ==
    /\ [][\A f \in Tasks :
            /\ (pc[f] = "part" /\ NonAttachment(CurPart(f)) /\ Steps(f)) =>
                  /\ dir' = dir /\ stats' = stats /\ nwrites' = nwrites
                  /\ exc' = exc
                  /\ pos'[f] = pos[f] + 1
                  /\ pc'[f] \in {"part", "inc_processed"}
                  /\ save'[f] = <<>> /\ counter'[f] = 0
            /\ (NoAttachments(f) /\ Steps(f)) =>
                  /\ dir' = dir /\ nwrites' = nwrites
                  /\ stats'.extracted = stats.extracted
                  /\ (pc'[f] = "done" /\ exc'[f] = "None")
                        => stats'.processed = stats.processed + 1
                  /\ pc'[f] # "done" => stats' = stats]_vars
    /\ []((/\ mainpc = "returned" /\ run = 1 /\ NoException
            /\ \A f \in Tasks : NoAttachments(f))
           => (dir = EmptyDir /\ result = <<NumFiles, 0>>))

\* A run over files with no attachment parts, one of them holding an inline
\* part and an attachment without a file name, has returned.
C13_Witness ==
    /\ mainpc = "returned" /\ run = 1 /\ NoException
    /\ \A f \in Tasks : NoAttachments(f)
    /\ \E f \in Tasks : /\ Len(files[f]) = 2
                         /\ files[f][1].disp # "attachment"
                         /\ files[f][2].disp = "attachment"
    /\ result = <<NumFiles, 0>>

\* File f holds two decodable attachments named a.p of different content and
\* nothing else, no file before it has an attachment part, and no file after it
\* has been started: f meets an empty directory and is the only writer.
PairFirst(f) ==
    /\ run = 1
    /\ Len(files[f]) = 2
    /\ \A k \in 1..2 :
          /\ files[f][k].disp = "attachment"
          /\ files[f][k].filename = NameA
          /\ ~files[f][k].multipart
    /\ files[f][1].body # files[f][2].body
    /\ \A g \in Tasks :
          /\ (g < f) => NoAttachments(g)
          /\ (g > f) => (pc[g] = "pending")

\* C14: document order within a file.  A task goes through its parts one by
\* one in their order of appearance, and every change it makes to the
\* directory is to one file that receives the content of the part the task is
\* at.  When a file holds two attachments named a.p of different
\* content, the first is in a.p before the second is allocated, the
\* allocation of the second sees it there, and the second is written to
\* a_1.p.
C14_DocumentOrder ==
    /\ [][\A f \in Tasks : Steps(f) =>
            /\ pos'[f] \in {pos[f], pos[f] + 1}
            /\ dir' # dir =>
                  /\ pos'[f] = pos[f]
                  /\ \E n \in DOMAIN dir' :
                        /\ \A m \in DOMAIN dir' \ {n} :
                              m \in DOMAIN dir /\ dir'[m] = dir[m]
                        /\ dir'[n] \in {Empty, files[f][pos[f]].body}]_vars
    /\ [](\A f \in Tasks : PairFirst(f) =>
            /\ pos[f] >= 2 =>
                  /\ NameA \in DOMAIN dir
                  /\ dir[NameA] = files[f][1].body
            /\ (pos[f] = 2 /\ pre[f] # NoPre) =>
                  /\ NameA \in DOMAIN pre[f][1]
                  /\ pre[f][1][NameA] = files[f][1].body
            /\ pos[f] >= 3 =>
                  /\ NameA1 \in DOMAIN dir
                  /\ dir[NameA1] = files[f][2].body)

\* The first file's two attachments named a.p have both been written.
C14_Witness ==
    /\ PairFirst(1)
    /\ pos[1] = 3
    /\ DOMAIN dir = {NameA, NameA1}
    /\ dir[NameA] = files[1][1].body /\ dir[NameA1] = files[1][2].body

\* C15: exactly-once dispatch on a bounded pool.  At most PoolSize tasks run
\* at any moment; a file that has been taken by a pool thread is never taken
\* again and a finished one stays finished; a task only moves forward
\* through its own file, and no step belongs to two files; the list of files
\* is never changed; when the run has returned, every file has been taken
\* and finished.
C15_BoundedDispatch ==
    /\ [](Cardinality(Running) <= PoolSize)
    /\ [][/\ files' = files
           /\ (\A f \in Tasks :
                 /\ (pc[f] # "pending") => (pc'[f] # "pending")
                 /\ (pc[f] = "done") => (pc'[f] = "done" /\ pos'[f] = pos[f])
                 /\ (pc[f] = "pending") => (pos'[f] = pos[f])
                 /\ pos'[f] >= pos[f])
           /\ (\A g, h \in Tasks :
                 (g # h /\ (pc'[g] # pc[g] \/ pos'[g] # pos[g]))
                    => (pc'[h] = pc[h] /\ pos'[h] = pos[h]))]_vars
    /\ [](mainpc = "returned" => AllDone)

\* The pool is full and a submitted file waits for a free thread.
C15_Witness ==
    /\ Cardinality(Running) = PoolSize
    /\ \E f \in Tasks : pc[f] = "pending" /\ Len(files[f]) >= 1
    /\ \A f \in Running : pc[f] \in {"scan", "write"}

\* C16: allocator termination.  A scan never stays in its loop for ever,
\* also while other tasks add files of the same family: from some moment on
\* no task is scanning.  The reason is the bound on the scan: the counter of
\* a scanning task never exceeds the number of files in the directory.
C16_ScanTerminates ==
    /\ <>[](\A f \in Tasks : pc[f] # "scan")
    /\ [](\A f \in Tasks :
            pc[f] = "scan" => counter[f] <= Cardinality(DOMAIN dir))

\* A scan has passed over a_1.p, which another task created after the scan
\* began.
C16_Witness ==
    \E f \in Tasks :
        /\ pc[f] = "scan"
        /\ counter[f] = 2
        /\ NameA1 \notin DOMAIN pre[f][1]
        /\ NameA1 \in DOMAIN dir

\* The tasks that have reached the end of their file: they are at line 65, or
\* have finished without an exception.
ReachedEnd ==
    { f \in Tasks : \/ pc[f] \in {"inc_processed", "store_processed"}
                    \/ pc[f] = "done" /\ exc[f] = "None" }

\* C17: counter bounds.  In every state of a run, processed lies between 0
\* and the number of tasks that have reached the end of their file, which is
\* at most the number of input files, and extracted lies between 0 and the
\* number of writes completed so far.
C17_CounterBounds ==
    /\ 0 <= stats.processed
    /\ stats.processed <= Cardinality(ReachedEnd)
    /\ Cardinality(ReachedEnd) <= NumFiles
    /\ 0 <= stats.extracted
    /\ stats.extracted <= nwrites

\* Every task has finished, and both counters have reached their bounds
\* after three writes.
C17_Witness ==
    /\ AllDone
    /\ stats.processed = NumFiles
    /\ nwrites = 3
    /\ stats.extracted = nwrites

\* C18: no destructive overwrite in sequential execution.  As long as no
\* task has raised an exception: every file a task opens for writing either
\* does not exist or holds content digest-equal to the bytes about to be
\* written; no step removes a file; and no step changes the content of a file
\* once it has been written.
C18_NoDestructiveOverwrite ==
    [][NoException' =>
        /\ \A f \in Tasks :
             (pc[f] = "open" /\ pc'[f] = "write") =>
                \/ ~Exists(dir, save[f])
                \/ existing_file_md5(dir, save[f]) = file_md5(FileData(f))
        /\ \A n \in DOMAIN dir :
             /\ n \in DOMAIN dir'
             /\ dir[n] # Empty => dir'[n] = dir[n]]_vars

\* The tasks whose file holds one part, the decodable attachment a.p with
\* body b.
Carrying(b) ==
    { f \in Tasks : files[f] = <<Part("attachment", NameA, FALSE, b)>> }

\* C19: concurrent duplicates.  When two files each carry the one attachment
\* a.p with the same content, the other files have no attachment parts and
\* the directory starts empty, then when every task has finished without an
\* exception the directory holds exactly one file, a.p, with that content.
C19_ConcurrentDuplicates ==
    \A b \in {X, Y} :
        (/\ Cardinality(Carrying(b)) = 2
         /\ \A f \in Tasks \ Carrying(b) : NoAttachments(f)
         /\ AllDone /\ NoException)
        => (DOMAIN dir = {NameA} /\ dir[NameA] = b)

====
